---- MODULE Spec2Model ----
(***************************************************************************)
(* The basm preprocessor (src/basm/basm-preprocessor): its lexer, its      *)
(* include/define/undef parser and the CodeMap it builds, together with    *)
(* the assembler-side CodeMap::get_from that resolves output lines; and    *)
(* the basm assembler (src/basm/basm): its lexer and its recursive-descent *)
(* parser.                                                                 *)
(*                                                                         *)
(* A text is a sequence of characters; a character is a one-element        *)
(* string, except U2, which stands for one character whose UTF-8 encoding  *)
(* is two bytes long.  Byte offsets and character counts are kept apart    *)
(* exactly where the Rust code keeps them apart.                           *)
(***************************************************************************)
EXTENDS Integers, Sequences, FiniteSets, TLC

VARIABLES lexer, fs, stack, mapA, mapB, mapPre, mapOp, asm, number, par

vars == <<lexer, fs, stack, mapA, mapB, mapPre, mapOp, asm, number, par>>

(***************************************************************************)
(* Bounds of the model.                                                    *)
(***************************************************************************)
MaxPieces == 3
MaxLines == 2
MaxDepth == 3
MaxEntries == 2

(***************************************************************************)
(* Characters.                                                             *)
(***************************************************************************)
U2 == "U+00E9"
NUL == "NUL"
NoChar == "<none>"

Letters ==
    {"i", "n", "c", "l", "u", "d", "e", "f", "x", "b", "q", "X", "Y", "D", U2,
     "a", "o", "m", "v", "h", "t", "p", "r", "g", "F"}
Digits == {"0", "1", "2", "3", "4", "5", "6", "7", "8", "9"}

len_utf8(c) == IF c = U2 THEN 2 ELSE 1

is_whitespace(c) == c \in {" ", "\t", "\n"}

is_alphanumeric(c) == c \in Letters \cup Digits

to_lowercase(c) ==
    CASE c = "X" -> "x" [] c = "Y" -> "y" [] c = "D" -> "d" [] c = "F" -> "f" [] OTHER -> c

\* str::len: the length in bytes
str_len(s) == Len(s) + Cardinality({i \in 1..Len(s) : len_utf8(s[i]) = 2})

\* the one element of a one-element set: binds an intermediate value once
Only(S) == CHOOSE r \in S : TRUE

Drop(s, n) == SubSeq(s, n + 1, Len(s))

Take(s, n) == SubSeq(s, 1, n)

SetMin(S) == CHOOSE x \in S : \A y \in S : x <= y

\* the number of characters before byte offset b when b is a character
\* boundary of s, and -1 when it is not (slicing there aborts)
char_boundary(s, b) ==
    LET hits == {i \in 0..Len(s) : str_len(Take(s, i)) = b}
    IN  IF hits = {} THEN -1 ELSE SetMin(hits)

chars_nth(s, n) == IF n < Len(s) THEN s[n + 1] ELSE NoChar

(***************************************************************************)
(* Preprocessor lexer (lexer.rs).  A token is a record; text is the        *)
(* payload of Code and String, num the payload of Integer.                 *)
(***************************************************************************)
Tok(kind, text, num, span) == [kind |-> kind, text |-> text, num |-> num, span |-> span]

\* take_while: the characters and bytes of the longest prefix satisfying
\* pred; "No matches" when that prefix is empty
take_while(data, pred(_)) ==
    Only({IF n = 0
          THEN [ok |-> FALSE, read |-> <<>>, bytes |-> 0]
          ELSE [ok |-> TRUE, read |-> Take(data, n), bytes |-> str_len(Take(data, n))] :
          n \in {SetMin({i \in 0..Len(data) : i = Len(data) \/ ~pred(data[i + 1])})}})

NotNewlineWs(c) == is_whitespace(c) /\ c # "\n"

skip_white_space(data) == take_while(data, NotNewlineWs).bytes

NotNewline(c) == c # "\n"

\* result: the bytes skipped (a started comment always has at least its ';')
skip_comment(data) ==
    IF data # <<>> /\ Head(data) = ";" THEN take_while(data, NotNewline).bytes ELSE 0

CodeChar(c) == c # "\n" /\ c # ";"

\* result: the bytes of the code run, or -1 for the panic on an empty run
skip_code(data) ==
    LET r == take_while(data, CodeChar)
    IN  IF r.ok THEN r.bytes ELSE -1

DigitValue(c) ==
    CASE c = "0" -> 0 [] c = "1" -> 1 [] c = "2" -> 2 [] c = "3" -> 3 [] c = "4" -> 4
      [] c = "5" -> 5 [] c = "6" -> 6 [] c = "7" -> 7 [] c = "8" -> 8 [] c = "9" -> 9
      [] c = "a" -> 10 [] c = "b" -> 11 [] c = "c" -> 12 [] c = "d" -> 13 [] c = "D" -> 13
      [] c = "e" -> 14 [] c = "f" -> 15 [] c = "F" -> 15
      [] OTHER -> 99

\* i64::from_str_radix on an unsigned digit string: -1 stands for Err (empty,
\* or a character that is no digit of the radix).  The overflow Err needs
\* more than 15 digits, which no text within the bounds has.
RECURSIVE from_str_radix(_, _, _)
from_str_radix(s, radix, acc) ==
    IF s = <<>> THEN acc
    ELSE IF DigitValue(Head(s)) >= radix THEN -1
    ELSE Only({from_str_radix(t, radix, a) :
                  t \in {Tail(s)}, a \in {acc * radix + DigitValue(Head(s))}})

parse_i64(s, radix) == IF s = <<>> THEN -1 ELSE from_str_radix(s, radix, 0)

\* tokenize_number: status "ok" with the token, "err", or "panic" when the
\* two-byte prefix slice read[0..2] does not end on a character boundary
number_value(read, cut) ==
    IF str_len(read) > 2
    THEN CASE Take(read, cut) = <<"0", "x">> -> parse_i64(Drop(read, 2), 16)
           [] Take(read, cut) = <<"0", "b">> -> parse_i64(Drop(read, 2), 2)
           [] OTHER -> parse_i64(read, 10)
    ELSE parse_i64(read, 10)

tokenize_number(data) ==
    Only({IF ~r.ok THEN [status |-> "err", tok |-> Tok("None", <<>>, 0, 0)]
          ELSE IF r.bytes > 2 /\ char_boundary(r.read, 2) = -1
          THEN [status |-> "panic", tok |-> Tok("None", <<>>, 0, 0)]
          ELSE Only({IF num = -1 THEN [status |-> "err", tok |-> Tok("None", <<>>, 0, 0)]
                     ELSE [status |-> "ok", tok |-> Tok("Integer", <<>>, num, r.bytes)] :
                     num \in {number_value(r.read, char_boundary(r.read, 2))}}) :
          r \in {take_while(data, is_alphanumeric)}})

\* the loop of tokenize_string_literal over the characters after the
\* opening quote: final_string and bytes_read so far
RECURSIVE string_loop(_, _, _)
string_loop(chars, final_string, bytes_read) ==
    IF chars = <<>> THEN [ok |-> FALSE, str |-> final_string, bytes |-> bytes_read]
    ELSE IF Head(chars) = "\"" THEN [ok |-> TRUE, str |-> final_string, bytes |-> bytes_read]
    ELSE IF Head(chars) = "\\"
    THEN IF Len(chars) < 2 THEN [ok |-> FALSE, str |-> final_string, bytes |-> bytes_read + 1]
         ELSE LET e == chars[2]
                  next == CASE e = "n" -> "\n" [] e = "0" -> NUL
                            [] e = "\\" -> "\\" [] e = "\"" -> "\"" [] OTHER -> NoChar
              IN  IF next = NoChar
                  THEN [ok |-> FALSE, str |-> final_string, bytes |-> bytes_read + 1]
                  ELSE Only({string_loop(t, fin, b) :
                                t \in {Drop(chars, 2)}, fin \in {Append(final_string, next)},
                                b \in {bytes_read + 1 + len_utf8(next)}})
    ELSE Only({string_loop(t, fin, b) :
                  t \in {Tail(chars)}, fin \in {Append(final_string, Head(chars))},
                  b \in {bytes_read + len_utf8(Head(chars))}})

tokenize_string_literal(data) ==
    Only({IF ~r.ok \/ r.bytes = 0
          THEN [status |-> "err", tok |-> Tok("None", <<>>, 0, 0)]
          ELSE [status |-> "ok", tok |-> Tok("String", r.str, 0, r.bytes + 2)] :
          r \in {Only({string_loop(t, <<>>, 0) : t \in {Tail(data)}})}})

DirectiveChar(c) == c = "_" \/ c = "#" \/ is_alphanumeric(c)

W_include == <<"#", "i", "n", "c", "l", "u", "d", "e">>
W_define == <<"#", "d", "e", "f", "i", "n", "e">>
W_undef == <<"#", "u", "n", "d", "e", "f">>

str_to_lowercase(s) == [i \in 1..Len(s) |-> to_lowercase(s[i])]

tokenize_directive(data) ==
    Only({CASE ~r.ok -> [status |-> "err", tok |-> Tok("None", <<>>, 0, 0)]
            [] r.ok /\ low = W_include -> [status |-> "ok", tok |-> Tok("Include", <<>>, 0, r.bytes)]
            [] r.ok /\ low = W_define -> [status |-> "ok", tok |-> Tok("Define", <<>>, 0, r.bytes)]
            [] r.ok /\ low = W_undef -> [status |-> "ok", tok |-> Tok("Undef", <<>>, 0, r.bytes)]
            [] OTHER -> [status |-> "err", tok |-> Tok("None", <<>>, 0, 0)] :
          r \in {take_while(data, DirectiveChar)}, low \in {str_to_lowercase(take_while(data, DirectiveChar).read)}})

\* Lexer::new
NewLexer(data) ==
    [data |-> data, tokens |-> <<>>, map |-> <<>>, span0 |-> 0, span1 |-> str_len(data),
     line |-> 1, state |-> "PassThrough", status |-> "running"]

\* get_selected: &data[span.0..span.1]; ok is FALSE when span.0 is no
\* character boundary (the slice aborts)
get_selected(lx) ==
    LET n == char_boundary(lx.data, lx.span0)
    IN  IF n = -1 THEN [ok |-> FALSE, sel |-> <<>>] ELSE [ok |-> TRUE, sel |-> Drop(lx.data, n)]

\* tokenize_one_token on the selected text
tokenize_one_token(lx, data) ==
    LET next == Head(data)
    IN  CASE data = <<>> -> [status |-> "err", tok |-> Tok("None", <<>>, 0, 0), state |-> lx.state]
          [] data # <<>> /\ next = "#" ->
                [state |-> "ReadParameters"] @@ tokenize_directive(data)
          [] data # <<>> /\ next = "\"" ->
                [state |-> lx.state] @@ tokenize_string_literal(data)
          [] data # <<>> /\ next \in Digits ->
                [state |-> lx.state] @@ tokenize_number(data)
          [] OTHER ->
                Only({IF span = -1
                      THEN [status |-> "panic", tok |-> Tok("None", <<>>, 0, 0), state |-> "PassThrough"]
                      ELSE [status |-> "ok", state |-> "PassThrough",
                            tok |-> Tok("Code", Take(data, char_boundary(data, span)), 0, span)] :
                      span \in {skip_code(data)}})

\* consume(span) and the push of a token that is not None; an iteration that
\* consumes nothing repeats forever (status "hang")
lexer_emit(lx, kind, text, num, span, line, state) ==
    IF span = 0
    THEN [lx EXCEPT !.status = "hang", !.line = line, !.state = state]
    ELSE [lx EXCEPT !.span0 = lx.span0 + span, !.line = line, !.state = state,
                    !.map = IF kind = "None" THEN @ ELSE Append(@, line),
                    !.tokens = IF kind = "None" THEN @ ELSE Append(@, Tok(kind, text, num, span))]

\* one iteration of the while loop of Lexer::tokenize, or its exit
tokenize_sel(lx, c, g) ==
    IF ~g.ok THEN [lx EXCEPT !.status = "panic"]
    ELSE IF is_whitespace(c)
    THEN Only({lexer_emit(lx, IF lx.state = "PassThrough" THEN "Whitespace" ELSE "None",
                          <<>>, 0, span, lx.line, lx.state) :
               span \in {skip_white_space(g.sel)}})
    ELSE IF c = ";"
    THEN Only({lexer_emit(lx, "None", <<>>, 0, span, lx.line, lx.state) :
               span \in {skip_comment(g.sel)}})
    ELSE Only({IF r.status = "ok"
               THEN lexer_emit(lx, r.tok.kind, r.tok.text, r.tok.num, r.tok.span, lx.line, r.state)
               ELSE [lx EXCEPT !.status = r.status, !.state = r.state] :
               r \in {tokenize_one_token(lx, g.sel)}})

tokenize_iter(lx) ==
    Only({IF lx.span0 >= lx.span1 THEN [lx EXCEPT !.status = "ok"]
          ELSE IF c = NoChar THEN [lx EXCEPT !.status = "panic"]
          ELSE IF c = "\n" THEN lexer_emit(lx, "Newline", <<>>, 0, 1, lx.line + 1, lx.state)
          ELSE Only({tokenize_sel(lx, c, g) : g \in {get_selected(lx)}}) :
          c \in {chars_nth(lx.data, lx.span0)}})

\* Lexer::tokenize run to its end
RECURSIVE tokenize(_)
tokenize(lx) ==
    IF lx.status # "running" THEN lx
    ELSE Only({tokenize(nx) : nx \in {tokenize_iter(lx)}})

\* Lexer::new(data) followed by tokenize()
lex_text(data) == Only({tokenize(lx) : lx \in {NewLexer(data)}})

(***************************************************************************)
(* CodeMap (codemap.rs of both crates).  A line entry is a record.         *)
(***************************************************************************)
LineEntry(filename_index, line) == [filename_index |-> filename_index, line |-> line]

\* CodeMap::new
new_map == [filenames |-> <<>>, line_entries |-> <<>>]

\* CodeMap::add_entry
add_entry(m, filename_index, line) ==
    [m EXCEPT !.line_entries = Append(@, LineEntry(filename_index, line))]

\* the offset taken after filenames was extended
push_offset_late(m, other) == Len(m.filenames) + Len(other.filenames)

\* the offset CodeMap::push adds to every filename index of other
push_offset(m, other) == Len(m.filenames)

\* CodeMap::push
push(m, other) ==
    [filenames |-> m.filenames \o other.filenames,
     line_entries |-> m.line_entries \o
        [j \in 1..Len(other.line_entries) |->
            LineEntry(other.line_entries[j].filename_index + push_offset(m, other),
                      other.line_entries[j].line)]]

Abort == <<"<abort>", 0>>

\* CodeMap::get_from (assembler crate): (filename, line) of 1-based output
\* line `line`; an index out of range aborts
get_from(m, line) ==
    IF line < 1 \/ line > Len(m.line_entries) THEN Abort
    ELSE LET entry == m.line_entries[line]
         IN  IF entry.filename_index >= Len(m.filenames) THEN Abort
             ELSE <<m.filenames[entry.filename_index + 1], entry.line>>

(***************************************************************************)
(* Preprocessor parser (parser.rs).  A frame is one Parser instance; the   *)
(* stack holds the instances of the nested parse() calls, innermost last.  *)
(* origin is kept beside output: for each character of output, the file    *)
(* and source line of the token that emitted it.                           *)
(***************************************************************************)
EmptyDefs == [n \in {} |-> <<>>]

\* Parser::new
NewParser(filename, tokens) ==
    [filename |-> filename, tokens |-> tokens, output |-> <<>>, origin |-> <<>>,
     map |-> new_map, deflist |-> EmptyDefs, index |-> 0, line |-> 1,
     pc |-> "new", err |-> ""]

Eof == Tok("Eof", <<>>, 0, 0)

\* Parser::peek
peek(f) == IF f.index < Len(f.tokens) THEN f.tokens[f.index + 1] ELSE Eof

\* Parser::next (the token it returns is the one peek shows)
next(f) == IF f.index < Len(f.tokens) THEN [f EXCEPT !.index = @ + 1] ELSE f

\* Parser::consume_whitespace
consume_whitespace(f) ==
    IF peek(f).kind = "Whitespace" THEN [f EXCEPT !.index = @ + 1] ELSE f

\* output.push / output.push_str by the parser of file f.filename at f.line
emit(f, chars) ==
    [f EXCEPT !.output = @ \o chars,
              !.origin = @ \o [i \in 1..Len(chars) |-> <<f.filename, f.line>>]]

\* the Err arm of Parser::parse: the parse of this file is over
fail(f, msg) == [f EXCEPT !.pc = "err", !.err = msg]

\* the first lines of Parser::parse, before its loop
parse_begin(f) ==
    [f EXCEPT !.map = add_entry([@ EXCEPT !.filenames = Append(@, f.filename)], 0, f.line),
              !.pc = "loop"]

\* parse_single_expr, the Newline arm
expr_newline(f) ==
    LET a == emit(f, <<"\n">>)
        b == next([a EXCEPT !.line = @ + 1])
        c == [b EXCEPT !.map = add_entry(@, 0, b.line)]
    IN  consume_whitespace(c)

\* parse_single_expr, the Whitespace arm
expr_whitespace(f) == next(emit(f, <<" ">>))

\* a Code arm that consults the macro table: a defined name is not emitted
expr_code_consulting(f) ==
    next(emit(f, IF peek(f).text \in DOMAIN f.deflist THEN <<>> ELSE peek(f).text))

\* parse_single_expr, the Code arm
expr_code(f) == next(emit(f, peek(f).text))

\* parse_single_expr, the String arm
expr_string(f) == next(emit(f, <<"\"">> \o peek(f).text \o <<"\"">>))

\* parse_directive up to its match: the keyword and one whitespace token are
\* consumed, then every token up to the next Newline; lo and hi are
\* param_span.0 and param_span.1, and index ends at hi
param_end(tokens, lo) ==
    LET stops == {i \in lo..(Len(tokens) - 1) : tokens[i + 1].kind = "Newline"}
    IN  IF stops = {} THEN Len(tokens) ELSE SetMin(stops)

directive_params(f) ==
    LET a == consume_whitespace(next(f))
        hi == param_end(a.tokens, a.index)
    IN  [lo |-> a.index, hi |-> hi, f |-> [a EXCEPT !.index = hi]]

\* the slice taken from the name on
define_body_from_name(tokens, lo, hi) == SubSeq(tokens, lo + 1, hi)

\* the slice stored as the body of a macro
define_body(tokens, lo, hi) == SubSeq(tokens, lo + 2, hi)

DefInsert(d, name, body) ==
    [n \in DOMAIN d \cup {name} |-> IF n = name THEN body ELSE d[n]]

DefRemove(d, name) == [n \in DOMAIN d \ {name} |-> d[n]]

\* parse_directive, the Define arm
directive_define(f) ==
    LET p == directive_params(f)
        g == p.f
        t == g.tokens[p.lo + 1]
    IN  IF p.hi - p.lo = 0 THEN fail(g, "#DEFINE no parameters")
        ELSE IF t.kind = "Code"
        THEN [g EXCEPT !.deflist = DefInsert(@, t.text, define_body(g.tokens, p.lo, p.hi))]
        ELSE fail(g, "#DEFINE expects a name")

\* parse_directive, the Undef arm
directive_undef(f) ==
    LET p == directive_params(f)
        g == p.f
        t == g.tokens[p.lo + 1]
    IN  IF p.hi - p.lo = 0 THEN fail(g, "#UNDEF no parameters")
        ELSE IF t.kind = "Code"
        THEN [g EXCEPT !.deflist = DefRemove(@, t.text)]
        ELSE fail(g, "#UNDEF expects one name")

\* parse_directive, the Include arm, up to the nested parse: what the
\* parameter list lets it do.  "call" reads and parses the file named path.
include_check(tokens, lo, hi) ==
    IF hi - lo = 0 THEN [do |-> "err", path |-> <<>>]
    ELSE IF tokens[lo + 1].kind = "String" THEN [do |-> "call", path |-> tokens[lo + 1].text]
    ELSE IF hi >= Len(tokens) THEN [do |-> "panic", path |-> <<>>]
    ELSE [do |-> "err", path |-> <<>>]

(***************************************************************************)
(* Assembler lexer (src/basm/basm/src/lexer.rs).  Its take_while,          *)
(* skip_white_space and skip_comment are the preprocessor's, character for *)
(* character.  A token is a Tok record; the tokens a Lexer has pushed also *)
(* carry their line and, for the properties, at: the byte offset where the *)
(* token was read.                                                         *)
(***************************************************************************)
U16Max == 65535

\* u16::from_str_radix on an unsigned digit string: -1 stands for Err (empty,
\* a character that is no digit of the radix, or a value above u16::MAX)
RECURSIVE u16_from_str_radix(_, _, _)
u16_from_str_radix(s, radix, acc) ==
    IF s = <<>> THEN acc
    ELSE IF DigitValue(Head(s)) >= radix THEN -1
    ELSE IF acc * radix + DigitValue(Head(s)) > U16Max THEN -1
    ELSE Only({u16_from_str_radix(t, radix, a) :
                  t \in {Tail(s)}, a \in {acc * radix + DigitValue(Head(s))}})

parse_u16(s, radix) == IF s = <<>> THEN -1 ELSE u16_from_str_radix(s, radix, 0)

\* every literal read as decimal, whatever its first two bytes
asm_number_value_decimal(read, cut) == parse_u16(read, 10)

\* the match on &read[0..2]; cut is the number of characters in those two bytes
asm_number_value(read, cut) ==
    IF str_len(read) > 2
    THEN CASE Take(read, cut) = <<"0", "x">> -> parse_u16(Drop(read, 2), 16)
           [] Take(read, cut) = <<"0", "o">> -> parse_u16(Drop(read, 2), 8)
           [] Take(read, cut) = <<"0", "b">> -> parse_u16(Drop(read, 2), 2)
           [] OTHER -> parse_u16(read, 10)
    ELSE parse_u16(read, 10)

\* tokenize_number: status "ok" with the token, "err", or "panic" when the
\* slice read[0..2] does not end on a character boundary
asm_tokenize_number(data) ==
    Only({IF ~r.ok THEN [status |-> "err", tok |-> Tok("None", <<>>, 0, 0)]
          ELSE IF r.bytes > 2 /\ char_boundary(r.read, 2) = -1
          THEN [status |-> "panic", tok |-> Tok("None", <<>>, 0, 0)]
          ELSE Only({IF num = -1 THEN [status |-> "err", tok |-> Tok("None", <<>>, 0, 0)]
                     ELSE [status |-> "ok", tok |-> Tok("Integer", <<>>, num, r.bytes)] :
                     num \in {asm_number_value(r.read, char_boundary(r.read, 2))}}) :
          r \in {take_while(data, is_alphanumeric)}})

\* tokenize_string_literal: the span is bytes_read, the bytes of the
\* contents without the two quotes
asm_tokenize_string_literal(data) ==
    Only({IF ~r.ok \/ r.bytes = 0
          THEN [status |-> "err", tok |-> Tok("None", <<>>, 0, 0)]
          ELSE [status |-> "ok", tok |-> Tok("String", r.str, 0, r.bytes)] :
          r \in {Only({string_loop(t, <<>>, 0) : t \in {Tail(data)}})}})

\* a text as one string, to match it against the keywords
RECURSIVE Join(_)
Join(s) == IF s = <<>> THEN "" ELSE Head(s) \o Join(Tail(s))

Opcodes ==
    {"Mov", "Add", "Adc", "Sub", "Sbb", "Sbw", "Swb", "Nnd", "And", "Aib", "Anb", "Bia",
     "Bna", "Ora", "Nor", "Jmp", "Hlt", "Jsr", "Ret", "Dec", "Inc", "Cmp", "Xor", "Xnr",
     "Clc", "Clz", "Sec", "Sez"}

Conditions == {"C", "Z", "Nc", "Nz", "Cz", "Ncz"}

Registers == {"Ac", "Br", "Ix", "Sp", "Imm", "Stack"}

\* the match of tokenize_identifier on the lowercased text
identifier_kind(w) ==
    CASE w = "mov" -> "Mov" [] w = "add" -> "Add" [] w = "adc" -> "Adc" [] w = "sub" -> "Sub"
      [] w = "sbb" -> "Sbb" [] w = "sbw" -> "Sbw" [] w = "swb" -> "Swb" [] w = "nnd" -> "Nnd"
      [] w = "and" -> "And" [] w = "aib" -> "Aib" [] w = "anb" -> "Anb" [] w = "bia" -> "Bia"
      [] w = "bna" -> "Bna" [] w = "ora" -> "Ora" [] w = "nor" -> "Nor" [] w = "jmp" -> "Jmp"
      [] w = "hlt" -> "Hlt" [] w = "jsr" -> "Jsr" [] w = "ret" -> "Ret" [] w = "dec" -> "Dec"
      [] w = "inc" -> "Inc" [] w = "cmp" -> "Cmp" [] w = "xor" -> "Xor" [] w = "xnr" -> "Xnr"
      [] w = "clc" -> "Clc" [] w = "clz" -> "Clz" [] w = "sec" -> "Sec" [] w = "sez" -> "Sez"
      [] w = "c" -> "C" [] w = "z" -> "Z" [] w = "nc" -> "Nc" [] w = "nz" -> "Nz"
      [] w = "cz" -> "Cz" [] w = "ncz" -> "Ncz"
      [] w = "ac" -> "Ac" [] w = "br" -> "Br" [] w = "ix" -> "Ix" [] w = "sp" -> "Sp"
      [] w = "imm" -> "Imm" [] w = "stack" -> "Stack"
      [] OTHER -> "Label"

IdentifierChar(c) == c = "_" \/ is_alphanumeric(c)

tokenize_identifier(data) ==
    Only({IF ~r.ok THEN [status |-> "err", tok |-> Tok("None", <<>>, 0, 0)]
          ELSE Only({[status |-> "ok",
                      tok |-> Tok(identifier_kind(Join(low)),
                                  IF identifier_kind(Join(low)) = "Label" THEN low ELSE <<>>,
                                  0, r.bytes)] :
                     low \in {str_to_lowercase(r.read)}}) :
          r \in {take_while(data, IdentifierChar)}})

AsmDirectiveChar(c) == c = "_" \/ c = "." \/ is_alphanumeric(c)

asm_tokenize_directive(data) ==
    Only({IF ~r.ok THEN [status |-> "err", tok |-> Tok("None", <<>>, 0, 0)]
          ELSE Only({CASE w = ".org" -> [status |-> "ok", tok |-> Tok("Org", <<>>, 0, r.bytes)]
                       [] w = ".db" -> [status |-> "ok", tok |-> Tok("Db", <<>>, 0, r.bytes)]
                       [] OTHER -> [status |-> "err", tok |-> Tok("None", <<>>, 0, 0)] :
                     w \in {Join(str_to_lowercase(r.read))}}) :
          r \in {take_while(data, AsmDirectiveChar)}})

\* tokenize_one_token: the match on the first character of data
asm_tokenize_one_token(data) ==
    IF data = <<>> THEN [status |-> "err", tok |-> Tok("None", <<>>, 0, 0)]
    ELSE Only({CASE first = "," -> [status |-> "ok", tok |-> Tok("Comma", <<>>, 0, 1)]
                 [] first = "(" -> [status |-> "ok", tok |-> Tok("OpenParen", <<>>, 0, 1)]
                 [] first = ")" -> [status |-> "ok", tok |-> Tok("CloseParen", <<>>, 0, 1)]
                 [] first = "+" -> [status |-> "ok", tok |-> Tok("Plus", <<>>, 0, 1)]
                 [] first = "-" -> [status |-> "ok", tok |-> Tok("Minus", <<>>, 0, 1)]
                 [] first = "*" -> [status |-> "ok", tok |-> Tok("Times", <<>>, 0, 1)]
                 [] first = "/" -> [status |-> "ok", tok |-> Tok("Div", <<>>, 0, 1)]
                 [] first = "." -> asm_tokenize_directive(data)
                 [] first \in Digits -> asm_tokenize_number(data)
                 [] first = "\"" -> asm_tokenize_string_literal(data)
                 [] first \notin ({",", "(", ")", "+", "-", "*", "/", ".", "\""} \cup Digits)
                      /\ IdentifierChar(first) -> tokenize_identifier(data)
                 [] OTHER -> [status |-> "err", tok |-> Tok("None", <<>>, 0, 0)] :
               first \in {Head(data)}})

\* Lexer::new
NewAsmLexer(data) ==
    [data |-> data, tokens |-> <<>>, span0 |-> 0, span1 |-> str_len(data),
     line |-> 1, status |-> "running"]

\* consume(consumed) and the push of a token that is not None; an iteration
\* that consumes nothing repeats forever (status "hang")
asm_lexer_emit(lx, tok, consumed, line) ==
    IF consumed = 0
    THEN [lx EXCEPT !.status = "hang", !.line = line]
    ELSE [lx EXCEPT !.span0 = lx.span0 + consumed, !.line = line,
                    !.tokens = IF tok.kind = "None" THEN @
                               ELSE Append(@, [kind |-> tok.kind, text |-> tok.text,
                                               num |-> tok.num, span |-> consumed,
                                               line |-> line, at |-> lx.span0])]

\* the match on the character data.chars().nth(span.0)
asm_tokenize_sel(lx, c, g) ==
    IF ~g.ok THEN [lx EXCEPT !.status = "panic"]
    ELSE IF is_whitespace(c) /\ c # "\n"
    THEN Only({asm_lexer_emit(lx, Tok("None", <<>>, 0, 0), span, lx.line) :
               span \in {skip_white_space(g.sel)}})
    ELSE IF c = ";"
    THEN Only({asm_lexer_emit(lx, Tok("None", <<>>, 0, 0), span, lx.line) :
               span \in {skip_comment(g.sel)}})
    ELSE Only({IF r.status = "ok"
               THEN asm_lexer_emit(lx, r.tok, r.tok.span, lx.line)
               ELSE [lx EXCEPT !.status = r.status] :
               r \in {asm_tokenize_one_token(g.sel)}})

\* one iteration of the while loop of Lexer::tokenize, or its exit
asm_tokenize_iter(lx) ==
    Only({IF lx.span0 = lx.span1 THEN [lx EXCEPT !.status = "ok"]
          ELSE IF c = NoChar THEN [lx EXCEPT !.status = "panic"]
          ELSE IF c = "\n" THEN asm_lexer_emit(lx, Tok("None", <<>>, 0, 0), 1, lx.line + 1)
          ELSE Only({asm_tokenize_sel(lx, c, g) : g \in {get_selected(lx)}}) :
          c \in {chars_nth(lx.data, lx.span0)}})

(***************************************************************************)
(* Assembler parser (src/basm/basm/src/parser.rs).  Its tokens are the     *)
(* lexer's, and the Colon token its label productions match.  A production *)
(* is an operator on the tokens and the parser's position p (index and     *)
(* line); it returns st, "some" with the node e, "none" or "err", and the  *)
(* position it leaves the parser in.                                       *)
(***************************************************************************)
AsmToken(kind, text, num, line) ==
    [kind |-> kind, text |-> text, num |-> num, span |-> 1, line |-> line]

\* an Expr: kind, the payload of the kind (a token kind tk, a text, a number
\* or the indexed flag), the children exprs and the line
Expr(kind, tk, text, num, indexed, exprs, line) ==
    [kind |-> kind, tk |-> tk, text |-> text, num |-> num, indexed |-> indexed,
     exprs |-> exprs, line |-> line]

Node(kind, line) == Expr(kind, "", <<>>, 0, FALSE, <<>>, line)

TkNode(kind, tk, line) == Expr(kind, tk, <<>>, 0, FALSE, <<>>, line)

NoExpr == Node("None", 0)

PushExpr(e, child) == [e EXCEPT !.exprs = Append(@, child)]

\* Ok(Some(e)), Ok(None) and Err(msg)
OkSome(e, p) == [st |-> "some", e |-> e, p |-> p, msg |-> ""]

OkNone(p) == [st |-> "none", e |-> NoExpr, p |-> p, msg |-> ""]

ErrMsg(msg, p) == [st |-> "err", e |-> NoExpr, p |-> p, msg |-> msg]

EofToken == AsmToken("EOF", <<>>, 0, 0)

\* Parser::peek; EofToken stands for None
asm_peek(tokens, p) == IF p.index < Len(tokens) THEN tokens[p.index + 1] ELSE EofToken

\* a next that hands out the token without moving on
asm_next_stuck(tokens, p) ==
    IF p.index < Len(tokens) THEN [p EXCEPT !.line = tokens[p.index + 1].line] ELSE p

\* Parser::next
asm_next(tokens, p) ==
    IF p.index < Len(tokens)
    THEN [index |-> p.index + 1, line |-> tokens[p.index + 1].line]
    ELSE p

\* the index left where it is
step_back_not(p) == p

\* self.index -= 1
step_back(p) == [p EXCEPT !.index = p.index - 1]

register(tokens, p) ==
    Only({IF t.kind \in Registers
          THEN OkSome(TkNode("Register", t.kind, t.line), asm_next(tokens, p))
          ELSE OkNone(p) :
          t \in {asm_peek(tokens, p)}})

\* a label is taken as a value whatever follows it
label_is_never_declared(tokens, p) == FALSE

\* the peek of primary after a label: a colon makes it a declaration
label_is_declared(tokens, p) == asm_peek(tokens, p).kind = "Colon"

primary(tokens, p) ==
    Only({CASE t.kind = "Integer" ->
                 OkSome(PushExpr(Node("Primary", t.line),
                                 Expr("Integer", "", <<>>, t.num, FALSE, <<>>, t.line)),
                        asm_next(tokens, p))
            [] t.kind = "Label" ->
                 Only({IF label_is_declared(tokens, p1)
                       THEN OkNone(step_back(p1))
                       ELSE OkSome(PushExpr(Node("Primary", t.line),
                                            Expr("Label", "", t.text, 0, FALSE, <<>>, t.line)),
                                   p1) :
                       p1 \in {asm_next(tokens, p)}})
            [] OTHER -> OkNone(p) :
          t \in {asm_peek(tokens, p)}})

RECURSIVE unary(_, _)
unary(tokens, p) ==
    Only({CASE t.kind = "EOF" -> OkNone(p)
            [] t.kind \in {"Plus", "Minus"} ->
                 Only({CASE r.st = "some" ->
                              OkSome(PushExpr(PushExpr(Node("Unary", t.line),
                                                       TkNode("Operator", t.kind, t.line)),
                                              r.e),
                                     r.p)
                         [] r.st = "none" ->
                              ErrMsg("Expected value after unary +, -, or ~ operator", r.p)
                         [] OTHER -> r :
                       r \in {Only({unary(tokens, p1) : p1 \in {asm_next(tokens, p)}})}})
            [] OTHER ->
                 Only({IF r.st = "some"
                       THEN OkSome(PushExpr(Node("Unary", t.line), r.e), r.p)
                       ELSE r :
                       r \in {primary(tokens, p)}}) :
          t \in {asm_peek(tokens, p)}})

\* the loop of factor: expr is the Factor node so far
RECURSIVE factor_loop(_, _, _)
factor_loop(tokens, expr, p) ==
    Only({IF t.kind \notin {"Times", "Div"} THEN OkSome(expr, p)
          ELSE Only({CASE r.st = "some" ->
                            Only({factor_loop(tokens, e2, p2) :
                                  e2 \in {PushExpr(PushExpr(expr, TkNode("Operator", t.kind, t.line)),
                                                   r.e)},
                                  p2 \in {r.p}})
                       [] r.st = "none" -> ErrMsg("Expected value after * or / operator", r.p)
                       [] OTHER -> r :
                     r \in {Only({unary(tokens, p1) : p1 \in {asm_next(tokens, p)}})}}) :
          t \in {asm_peek(tokens, p)}})

factor(tokens, p) ==
    Only({IF t.kind = "EOF" THEN OkNone(p)
          ELSE Only({IF r.st = "some"
                     THEN Only({factor_loop(tokens, e1, p1) :
                                e1 \in {PushExpr(Node("Factor", t.line), r.e)}, p1 \in {r.p}})
                     ELSE r :
                     r \in {unary(tokens, p)}}) :
          t \in {asm_peek(tokens, p)}})

\* a Term whose operands are read by unary, so that * and / end it
term_operand_unary(tokens, p) == unary(tokens, p)

\* the operand of a term: a factor
term_operand(tokens, p) == factor(tokens, p)

\* the loop of term: expr is the Term node so far
RECURSIVE term_loop(_, _, _)
term_loop(tokens, expr, p) ==
    Only({IF t.kind \notin {"Plus", "Minus"} THEN OkSome(expr, p)
          ELSE Only({IF asm_peek(tokens, p1).kind = "Ix"
                     THEN OkSome(expr, step_back(p1))
                     ELSE Only({CASE r.st = "some" ->
                                       Only({term_loop(tokens, e2, p2) :
                                             e2 \in {PushExpr(PushExpr(expr,
                                                                       TkNode("Operator", t.kind, t.line)),
                                                              r.e)},
                                             p2 \in {r.p}})
                                  [] r.st = "none" ->
                                       ErrMsg("Expected value after + or - operator", r.p)
                                  [] OTHER -> r :
                                r \in {term_operand(tokens, p1)}}) :
                     p1 \in {asm_next(tokens, p)}}) :
          t \in {asm_peek(tokens, p)}})

term(tokens, p) ==
    Only({IF t.kind = "EOF" THEN OkNone(p)
          ELSE Only({IF r.st = "some"
                     THEN Only({term_loop(tokens, e1, p1) :
                                e1 \in {PushExpr(Node("Term", t.line), r.e)}, p1 \in {r.p}})
                     ELSE r :
                     r \in {term_operand(tokens, p)}}) :
          t \in {asm_peek(tokens, p)}})

expression(tokens, p) ==
    Only({IF t.kind = "EOF" THEN OkNone(p)
          ELSE Only({IF r.st = "some"
                     THEN OkSome(PushExpr(Node("Expression", t.line), r.e), r.p)
                     ELSE r :
                     r \in {term(tokens, p)}}) :
          t \in {asm_peek(tokens, p)}})

\* the flag a Reference gets that is closed by + IX )
indexed_flipped(plus_ix) == ~plus_ix

\* the flag of a Reference: whether it was closed by + IX )
indexed(plus_ix) == plus_ix

\* the checks of hardware after the contents of a reference: ) or + IX )
reference_close(tokens, contents, line, p) ==
    Only({CASE t1.kind = "EOF" -> ErrMsg("Expected ) or +IX, found EOF", p)
            [] t1.kind = "CloseParen" ->
                 OkSome(PushExpr(Expr("Reference", "", <<>>, 0, indexed(FALSE), <<>>, line),
                                 contents), p1)
            [] t1.kind = "Plus" ->
                 Only({CASE t2.kind = "EOF" -> ErrMsg("Expected IX after +, found EOF", p1)
                         [] t2.kind = "Ix" ->
                              Only({CASE t3.kind = "EOF" -> ErrMsg("Expected ), found EOF", p2)
                                      [] t3.kind = "CloseParen" ->
                                           OkSome(PushExpr(Expr("Reference", "", <<>>, 0,
                                                                indexed(TRUE), <<>>, line),
                                                           contents), p3)
                                      [] OTHER -> ErrMsg("Expected )", p3) :
                                    t3 \in {asm_peek(tokens, p2)}, p3 \in {asm_next(tokens, p2)}})
                         [] OTHER -> ErrMsg("Expected IX after +", p2) :
                       t2 \in {asm_peek(tokens, p1)}, p2 \in {asm_next(tokens, p1)}})
            [] OTHER -> ErrMsg("Expected ) or +IX", p1) :
          t1 \in {asm_peek(tokens, p)}, p1 \in {asm_next(tokens, p)}})

RECURSIVE hardware(_, _)
RECURSIVE hardware_or_expression(_, _)
hardware_or_expression(tokens, p) ==
    Only({IF h.st # "none" THEN h
          ELSE Only({expression(tokens, p1) : p1 \in {h.p}}) :
          h \in {hardware(tokens, p)}})

\* the part of hardware after register and expression did not apply
hardware_reference(tokens, p) ==
    Only({IF t.kind # "OpenParen" THEN OkNone(p)
          ELSE Only({CASE c.st = "some" ->
                            Only({reference_close(tokens, e1, t.line, p1) :
                                  e1 \in {c.e}, p1 \in {c.p}})
                       [] c.st = "none" ->
                            ErrMsg("Expected expression or register, found EOF", c.p)
                       [] OTHER -> c :
                     c \in {Only({hardware_or_expression(tokens, p1) :
                                  p1 \in {asm_next(tokens, p)}})}}) :
          t \in {asm_peek(tokens, p)}})

hardware(tokens, p) ==
    Only({IF r.st = "some" THEN r
          ELSE Only({IF x.st # "none" THEN x
                     ELSE Only({hardware_reference(tokens, p2) : p2 \in {x.p}}) :
                     x \in {Only({expression(tokens, p1) : p1 \in {r.p}})}}) :
          r \in {register(tokens, p)}})

\* the part of op after the opcode token
op_operands(tokens, node, p) ==
    Only({CASE a.st = "err" -> a
            [] a.st = "none" -> OkSome(node, a.p)
            [] OTHER ->
                 IF asm_peek(tokens, a.p).kind # "Comma"
                 THEN OkSome(PushExpr(node, a.e), a.p)
                 ELSE Only({CASE b.st = "err" -> b
                              [] b.st = "none" -> ErrMsg("No 2nd parameter after comma", b.p)
                              [] OTHER -> OkSome(PushExpr(PushExpr(node, a.e), b.e), b.p) :
                            b \in {Only({hardware_or_expression(tokens, p1) :
                                         p1 \in {asm_next(tokens, a.p)}})}}) :
          a \in {hardware_or_expression(tokens, p)}})

op(tokens, p) ==
    Only({IF t.kind \notin Opcodes THEN OkNone(p)
          ELSE Only({op_operands(tokens, node, p1) :
                     node \in {TkNode("Op", t.kind, t.line)}, p1 \in {asm_next(tokens, p)}}) :
          t \in {asm_peek(tokens, p)}})

\* the part of instruction after the condition: kind is the condition's
\* token kind, or "None"
instruction_op(tokens, kind, p) ==
    Only({IF r.st = "some"
          THEN OkSome(PushExpr(TkNode("Instruction", kind, r.e.line), r.e), r.p)
          ELSE r :
          r \in {op(tokens, p)}})

instruction(tokens, p) ==
    Only({CASE t.kind = "EOF" -> OkNone(p)
            [] t.kind = "Minus" ->
                 Only({CASE c.kind = "EOF" ->
                              ErrMsg("Expected condition after -, found EOF", p1)
                         [] c.kind \in Conditions ->
                              Only({instruction_op(tokens, k, p2) :
                                    k \in {c.kind}, p2 \in {asm_next(tokens, p1)}})
                         [] OTHER -> ErrMsg("Expected condition after -", p1) :
                       c \in {asm_peek(tokens, asm_next(tokens, p))}, p1 \in {asm_next(tokens, p)}})
            [] OTHER -> instruction_op(tokens, "None", p) :
          t \in {asm_peek(tokens, p)}})

\* the loop of directive: node is the Directive node so far
RECURSIVE directive_loop(_, _, _)
directive_loop(tokens, node, p) ==
    Only({IF x.st = "err" THEN x
          ELSE Only({IF t.kind = "String"
                     THEN Only({directive_loop(tokens, n2, p2) :
                                n2 \in {PushExpr(n1, Expr("String", "", t.text, 0, FALSE, <<>>, t.line))},
                                p2 \in {asm_next(tokens, x.p)}})
                     ELSE OkSome(n1, x.p) :
                     n1 \in {IF x.st = "some" THEN PushExpr(node, x.e) ELSE node},
                     t \in {asm_peek(tokens, x.p)}}) :
          x \in {expression(tokens, p)}})

directive(tokens, p) ==
    Only({IF t.kind \notin {"Org", "Db"} THEN OkNone(p)
          ELSE Only({directive_loop(tokens, node, p1) :
                     node \in {TkNode("Directive", t.kind, t.line)},
                     p1 \in {asm_next(tokens, p)}}) :
          t \in {asm_peek(tokens, p)}})

label(tokens, p) ==
    Only({IF t.kind # "Label" THEN OkNone(p)
          ELSE Only({CASE c.kind = "EOF" -> OkNone(p1)
                       [] c.kind = "Colon" ->
                            OkSome(Expr("Label", "", t.text, 0, FALSE, <<>>, t.line),
                                   asm_next(tokens, p1))
                       [] OTHER -> ErrMsg("Unknown label", p1) :
                     c \in {asm_peek(tokens, asm_next(tokens, p))}, p1 \in {asm_next(tokens, p)}}) :
          t \in {asm_peek(tokens, p)}})

\* parse_one_statement; from is the index at which the production that
\* returned the statement was entered
parse_one_statement(tokens, p) ==
    Only({IF i.st # "none" THEN [from |-> p.index] @@ i
          ELSE Only({IF d.st # "none" THEN [from |-> i.p.index] @@ d
                     ELSE Only({IF l.st # "none" THEN [from |-> d.p.index] @@ l
                                ELSE IF asm_peek(tokens, l.p).kind # "EOF"
                                THEN [from |-> l.p.index] @@ ErrMsg("Unexpected token", l.p)
                                ELSE [from |-> l.p.index] @@ OkNone(l.p) :
                                l \in {Only({label(tokens, p2) : p2 \in {d.p}})}}) :
                     d \in {Only({directive(tokens, p1) : p1 \in {i.p}})}}) :
          i \in {instruction(tokens, p)}})

\* a call of tokenize_number on data, before it is made
NewNumber(data) == [data |-> data, status |-> "new", value |-> 0, span |-> 0]

\* Parser::new, with what parse has returned so far: output, the statements
\* pushed, and for the properties ranges: the index before and after the
\* production that returned each statement
NewAsmParser(tokens) ==
    [tokens |-> tokens, index |-> 0, line |-> 1, output |-> <<>>, ranges |-> <<>>,
     status |-> "running"]

IdleAsmLexer == NewAsmLexer(<<>>)

IdleNumber == NewNumber(<<>>)

IdleAsmParser == NewAsmParser(<<>>)

(***************************************************************************)
(* Texts are built from pieces, so that directive keywords and escapes     *)
(* occur within small bounds.                                              *)
(***************************************************************************)
RECURSIVE Flatten(_)
Flatten(ss) == IF ss = <<>> THEN <<>> ELSE Head(ss) \o Flatten(Tail(ss))

SeqsUpTo(S, n) == UNION {[1..k -> S] : k \in 0..n}

LexPieces ==
    {<<"\"">>, <<"\\", "n">>, <<"\\", "q">>, <<"x">>, <<" ">>, <<"\n">>, <<";">>,
     W_include, <<"#", "x">>, <<"1">>, <<U2>>}

LexTexts == {Flatten(ps) : ps \in SeqsUpTo(LexPieces, MaxPieces)}

IdleLexer == NewLexer(<<>>)

InitLex ==
    /\ lexer \in {NewLexer(t) : t \in LexTexts}
    /\ fs = <<>>
    /\ stack = <<>>
    /\ mapA = new_map /\ mapB = new_map /\ mapPre = new_map /\ mapOp = "none"
    /\ asm = IdleAsmLexer /\ number = IdleNumber /\ par = IdleAsmParser

\* one iteration of Lexer::tokenize
LexStep ==
    /\ lexer.status = "running"
    /\ lexer' = tokenize_iter(lexer)
    /\ UNCHANGED <<fs, stack, mapA, mapB, mapPre, mapOp, asm, number, par>>

NextLex == LexStep

SpecLex == InitLex /\ [][NextLex]_vars

(***************************************************************************)
(* The files an #include can name, and the token sequences handed to the   *)
(* outermost parser.  The token kinds are the ones parse_single_expr and   *)
(* the lexer share: the lexer pushes no None token, and the parser has no  *)
(* arm for Integer.                                                        *)
(***************************************************************************)
\* the first token the lexer makes of a text
LexTok(text) == lex_text(text).tokens[1]

T_nl == LexTok(<<"\n">>)
T_ws == LexTok(<<" ">>)
T_code(text) == LexTok(text)
T_str(text) == LexTok(<<"\"">> \o text \o <<"\"">>)
T_include == LexTok(W_include)
T_define == LexTok(W_define)
T_undef == LexTok(W_undef)

RootName == <<"a">>

Quoted(name) == <<"\"">> \o name \o <<"\"">>

Files ==
    [n \in {<<"b">>, <<"c">>, <<"d">>, <<"e">>} |->
        CASE n = <<"b">> -> <<"Y", "\n", "X">>
          [] n = <<"c">> -> W_define \o <<" ", "Y", "\n">> \o W_include \o <<" ">> \o Quoted(<<"b">>)
          [] n = <<"d">> -> <<"\"", "x">>
          [] n = <<"e">> -> <<"x", "\n">> \o W_include \o <<" ">> \o Quoted(<<"e">>)]

\* fileio.rs read_file: the text, or an error for a file that cannot be opened
read_file(path) ==
    IF path \in DOMAIN fs THEN [ok |-> TRUE, data |-> fs[path]] ELSE [ok |-> FALSE, data |-> <<>>]

\* the token lines the outermost file is made of
Lines ==
    {<<>>, <<T_code(<<"X">>)>>, <<T_ws, T_code(<<"Y">>)>>,
     <<T_str(<<"b">>)>>, <<T_str(<<"\\", "n">>)>>,
     <<T_str(<<"b">>), T_include, T_str(<<"b">>)>>,
     <<T_include>>, <<T_include, T_str(<<"b">>)>>, <<T_include, T_str(<<"c">>)>>,
     <<T_include, T_str(<<"d">>)>>, <<T_include, T_str(<<"e">>)>>,
     <<T_include, T_code(<<"X">>)>>, <<T_include, T_str(<<"b">>), T_str(<<"c">>)>>,
     <<T_define>>, <<T_define, T_code(<<"X">>)>>,
     <<T_define, T_code(<<"X">>), T_code(<<"Y">>)>>, <<T_define, T_str(<<"b">>)>>,
     <<T_undef>>, <<T_undef, T_code(<<"X">>)>>, <<T_undef, T_code(<<"Y">>)>>,
     <<T_undef, T_code(<<"X">>), T_code(<<"Y">>)>>, <<T_undef, T_str(<<"b">>)>>}

RECURSIVE JoinLines(_)
JoinLines(ls) ==
    IF ls = <<>> THEN <<>>
    ELSE IF Len(ls) = 1 THEN ls[1]
    ELSE ls[1] \o <<T_nl>> \o JoinLines(Tail(ls))

RootTokens ==
    {JoinLines(ls) \o tail : ls \in SeqsUpTo(Lines, MaxLines), tail \in {<<>>, <<T_nl>>}}

Init ==
    /\ fs = Files
    /\ stack \in {<<NewParser(RootName, toks)>> : toks \in RootTokens}
    /\ lexer = IdleLexer
    /\ mapA = new_map /\ mapB = new_map /\ mapPre = new_map /\ mapOp = "none"
    /\ asm = IdleAsmLexer /\ number = IdleNumber /\ par = IdleAsmParser

Top == stack[Len(stack)]

SetTop(f) == [stack EXCEPT ![Len(stack)] = f]

Running == stack # <<>> /\ Top.pc = "loop"

Idle == UNCHANGED <<lexer, fs, mapA, mapB, mapPre, mapOp, asm, number, par>>

\* Parser::parse, before the loop
ParseBegin ==
    /\ stack # <<>> /\ Top.pc = "new"
    /\ stack' = SetTop(parse_begin(Top))
    /\ Idle

\* the loop of Parser::parse ends: parse_single_expr found no token
ParseEnd ==
    /\ Running /\ peek(Top).kind = "Eof"
    /\ stack' = SetTop([Top EXCEPT !.pc = "ok"])
    /\ Idle

ExprNewline ==
    /\ Running /\ peek(Top).kind = "Newline"
    /\ stack' = SetTop(expr_newline(Top))
    /\ Idle

ExprWhitespace ==
    /\ Running /\ peek(Top).kind = "Whitespace"
    /\ stack' = SetTop(expr_whitespace(Top))
    /\ Idle

ExprCode ==
    /\ Running /\ peek(Top).kind = "Code"
    /\ stack' = SetTop(expr_code(Top))
    /\ Idle

ExprString ==
    /\ Running /\ peek(Top).kind = "String"
    /\ stack' = SetTop(expr_string(Top))
    /\ Idle

DirectiveDefine ==
    /\ Running /\ peek(Top).kind = "Define"
    /\ stack' = SetTop(directive_define(Top))
    /\ Idle

DirectiveUndef ==
    /\ Running /\ peek(Top).kind = "Undef"
    /\ stack' = SetTop(directive_undef(Top))
    /\ Idle

\* a nested parser that starts from the includer's macro table
nested_parser_inherit(f, path, tokens) ==
    [NewParser(path, tokens) EXCEPT !.deflist = f.deflist]

\* a file included from itself is not parsed again
nested_parser_once(f, path, tokens) ==
    NewParser(path, IF path = f.filename THEN <<>> ELSE tokens)

\* Parser::new(path, lexer.tokens) for the file included by parser f
nested_parser(f, path, tokens) == NewParser(path, tokens)

\* parse_directive, the Include arm up to parser.parse(): the errors of the
\* parameter list, read_file and lexer.tokenize, or the nested parser started
DirectiveInclude ==
    /\ Running /\ peek(Top).kind = "Include"
    /\ LET p == directive_params(Top)
           g == p.f
           c == include_check(g.tokens, p.lo, p.hi)
           r == read_file(c.path)
           lx == lex_text(r.data)
       IN  CASE c.do = "err" -> stack' = SetTop(fail(g, "#INCLUDE expects one string"))
             [] c.do = "panic" -> stack' = SetTop([g EXCEPT !.pc = "panic"])
             [] c.do = "call" /\ ~r.ok -> stack' = SetTop(fail(g, "File couldn't be opened"))
             [] c.do = "call" /\ r.ok /\ lx.status = "err" ->
                    stack' = SetTop(fail(g, "lexer error"))
             [] c.do = "call" /\ r.ok /\ lx.status \in {"panic", "hang"} ->
                    stack' = SetTop([g EXCEPT !.pc = lx.status])
             [] c.do = "call" /\ r.ok /\ lx.status = "ok" ->
                    /\ Len(stack) < MaxDepth
                    /\ stack' = Append(SetTop([g EXCEPT !.pc = "wait"]),
                                       nested_parser(g, c.path, lx.tokens))
    /\ Idle

\* the included text put before the includer's own
include_splice_front(f, child) ==
    [f EXCEPT !.output = child.output \o @,
              !.origin = child.origin \o @,
              !.map = push(@, child.map),
              !.pc = "loop"]

\* the splice after parser.parse()? returned Ok
include_splice(f, child) ==
    [f EXCEPT !.output = @ \o child.output,
              !.origin = @ \o child.origin,
              !.map = push(@, child.map),
              !.pc = "loop"]

\* parse_directive, the Include arm from the return of the nested parse
IncludeReturn ==
    /\ Len(stack) >= 2 /\ Top.pc \in {"ok", "err", "panic"}
    /\ LET child == Top
           parent == stack[Len(stack) - 1]
           rest == SubSeq(stack, 1, Len(stack) - 2)
       IN  stack' = Append(rest,
                CASE child.pc = "ok" -> include_splice(parent, child)
                  [] child.pc = "err" -> fail(parent, child.err)
                  [] OTHER -> [parent EXCEPT !.pc = "panic"])
    /\ Idle

Next ==
    \/ ParseBegin
    \/ ParseEnd
    \/ ExprNewline
    \/ ExprWhitespace
    \/ ExprCode
    \/ ExprString
    \/ DirectiveDefine
    \/ DirectiveUndef
    \/ DirectiveInclude
    \/ IncludeReturn

Spec == Init /\ [][Next]_vars

(***************************************************************************)
(* CodeMap on its own: maps whose entries all index their filenames, and   *)
(* the two operations that change a map.  mapPre is mapA as it was before  *)
(* the last operation, mapB the argument of push.                          *)
(***************************************************************************)
NameLists == {<<>>, <<"f">>, <<"g">>, <<"f", "g">>, <<"g", "f">>, <<"f", "f">>}

SourceLines == {1, 2}

Maps ==
    UNION {{[filenames |-> ns, line_entries |-> es] :
                es \in SeqsUpTo({LineEntry(i, l) : i \in 0..(Len(ns) - 1), l \in SourceLines},
                                MaxEntries)} :
           ns \in NameLists}

InitMap ==
    /\ mapA \in Maps /\ mapB \in Maps
    /\ mapPre = mapA /\ mapOp = "none"
    /\ asm = IdleAsmLexer /\ number = IdleNumber /\ par = IdleAsmParser
    /\ lexer = IdleLexer /\ fs = <<>> /\ stack = <<>>

\* self.map.push(&parser.map)
MapPush ==
    /\ mapOp # "push"
    /\ mapPre' = mapA
    /\ mapA' = push(mapA, mapB)
    /\ mapOp' = "push"
    /\ UNCHANGED <<mapB, lexer, fs, stack, asm, number, par>>

\* self.map.add_entry(filename_index, line), with an index filenames has
MapAddEntry ==
    /\ mapOp = "none"
    /\ \E i \in 0..(Len(mapA.filenames) - 1), l \in SourceLines :
          mapA' = add_entry(mapA, i, l)
    /\ mapPre' = mapA
    /\ mapOp' = "add_entry"
    /\ UNCHANGED <<mapB, lexer, fs, stack, asm, number, par>>

NextMap == MapPush \/ MapAddEntry

SpecMap == InitMap /\ [][NextMap]_vars

(***************************************************************************)
(* Properties of the parser's output text and source map.                  *)
(***************************************************************************)
NewlineCount(text) == Cardinality({i \in 1..Len(text) : text[i] = "\n"})

HasKind(tokens, kind) == \E i \in 1..Len(tokens) : tokens[i].kind = kind

StringWithNewline(tokens) ==
    \E i \in 1..Len(tokens) : tokens[i].kind = "String" /\ NewlineCount(tokens[i].text) > 0

\* the frames whose parse() has returned Ok
Finished == {i \in 1..Len(stack) : stack[i].pc = "ok"}

\* the 1-based output line that character i of the output lies on
OutputLine(output, i) == 1 + NewlineCount(Take(output, i - 1))

\* C1: after a parse without #include returns Ok, the map has one line entry
\* per newline of the output plus one, every entry has filename_index 0, and
\* filenames holds just the parsed file's name.
C1_NoIncludeMap ==
    \A i \in Finished :
        LET f == stack[i]
        IN  ~HasKind(f.tokens, "Include") =>
                /\ Len(f.map.line_entries) = NewlineCount(f.output) + 1
                /\ \A k \in 1..Len(f.map.line_entries) : f.map.line_entries[k].filename_index = 0
                /\ f.map.filenames = <<f.filename>>

\* C2: after a parse with #include returns Ok, the map has one line entry per
\* newline of the output plus one (stated for inputs whose strings hold no
\* newline, where every newline of the output comes from a Newline token).
C2_IncludeMapLength ==
    \A i \in Finished :
        LET f == stack[i]
        IN  HasKind(f.tokens, "Include") /\ ~StringWithNewline(f.tokens) =>
                Len(f.map.line_entries) = NewlineCount(f.output) + 1

\* C3: after a parse with #include returns Ok, every character the includer
\* itself emitted lies on an output line that get_from resolves to the
\* includer's file name and the source line of the token that emitted it.
C3_IncluderLinesResolve ==
    \A i \in Finished :
        LET f == stack[i]
        IN  HasKind(f.tokens, "Include") /\ ~StringWithNewline(f.tokens) =>
                \A k \in 1..Len(f.output) :
                    f.origin[k][1] = f.filename =>
                        get_from(f.map, OutputLine(f.output, k)) = f.origin[k]

(***************************************************************************)
(* Properties of CodeMap::push.                                            *)
(***************************************************************************)
\* C4: after A.push(B), entry (old length of A) + j of A resolves to what
\* entry j of B resolved to in B, and every old entry of A resolves as before.
C4_PushPreservesResolution ==
    mapOp = "push" =>
        /\ \A j \in 1..Len(mapB.line_entries) :
              /\ get_from(mapB, j) # Abort
              /\ get_from(mapA, Len(mapPre.line_entries) + j) = get_from(mapB, j)
        /\ \A k \in 1..Len(mapPre.line_entries) :
              /\ get_from(mapPre, k) # Abort
              /\ get_from(mapA, k) = get_from(mapPre, k)

\* a push that appended entries naming a file other than the ones A had
C4_Witness ==
    /\ mapOp = "push"
    /\ Len(mapPre.line_entries) > 0 /\ Len(mapB.line_entries) > 1
    /\ Len(mapPre.filenames) > 0
    /\ \E j \in 1..Len(mapB.line_entries) :
          /\ mapB.line_entries[j].filename_index = 1
          /\ get_from(mapB, j)[1] # mapPre.filenames[1]

(***************************************************************************)
(* The flattened text, stated on its own: what a successful parse of a     *)
(* token sequence appends to the output, token by token, with the text of  *)
(* an included file in the place of its #include.                          *)
(***************************************************************************)
DirectiveKinds == {"Include", "Define", "Undef"}

SkipWhitespace(tokens) ==
    IF tokens # <<>> /\ Head(tokens).kind = "Whitespace" THEN Tail(tokens) ELSE tokens

\* the number of tokens before the first Newline
LineLength(tokens) ==
    SetMin({n \in 0..Len(tokens) : n = Len(tokens) \/ tokens[n + 1].kind = "Newline"})

RECURSIVE FlatText(_, _)
FlatText(tokens, depth) ==
    IF tokens = <<>> \/ depth = 0 THEN <<>>
    ELSE LET t == Head(tokens)
             params == SkipWhitespace(Tail(tokens))
             after == Drop(params, LineLength(params))
         IN  CASE t.kind = "Newline" -> <<"\n">> \o FlatText(SkipWhitespace(Tail(tokens)), depth)
               [] t.kind = "Whitespace" -> <<" ">> \o FlatText(Tail(tokens), depth)
               [] t.kind = "Code" -> t.text \o FlatText(Tail(tokens), depth)
               [] t.kind = "String" -> Quoted(t.text) \o FlatText(Tail(tokens), depth)
               [] t.kind = "Include" ->
                     FlatText(lex_text(fs[Head(params).text]).tokens, depth - 1)
                        \o FlatText(after, depth)
               [] OTHER -> FlatText(after, depth)

\* token k is inside the parameter list of a directive keyword before it
IsParameter(tokens, k) ==
    \E j \in 1..(k - 1) :
        /\ tokens[j].kind \in DirectiveKinds
        /\ \A n \in (j + 1)..(k - 1) : tokens[n].kind # "Newline"

IncludeAt(tokens) == CHOOSE k \in 1..Len(tokens) : tokens[k].kind = "Include"

OneInclude(tokens) ==
    /\ Cardinality({k \in 1..Len(tokens) : tokens[k].kind = "Include"}) = 1
    /\ ~IsParameter(tokens, IncludeAt(tokens))

\* C5: the output of a successful parse of a file with exactly one #include
\* is the text of its tokens before the directive, then the flattened text
\* of the included file, then the text of its tokens after the directive's
\* parameter list; the keyword and its parameters add nothing.
C5_IncludeSplicesText ==
    \A i \in Finished :
        LET f == stack[i]
            k == IncludeAt(f.tokens)
            params == SkipWhitespace(Drop(f.tokens, k))
            path == Head(params).text
            after == Drop(params, LineLength(params))
        IN  OneInclude(f.tokens) =>
                f.output = FlatText(Take(f.tokens, k - 1), MaxDepth)
                            \o FlatText(lex_text(fs[path]).tokens, MaxDepth)
                            \o FlatText(after, MaxDepth)

\* a finished parse whose one #include has text before it, text after it
\* and an included file that is not empty
C5_Witness ==
    \E i \in Finished :
        LET f == stack[i]
            k == IncludeAt(f.tokens)
            params == SkipWhitespace(Drop(f.tokens, k))
        IN  /\ OneInclude(f.tokens)
            /\ FlatText(Take(f.tokens, k - 1), MaxDepth) # <<>>
            /\ FlatText(lex_text(fs[Head(params).text]).tokens, MaxDepth) # <<>>
            /\ FlatText(Drop(params, LineLength(params)), MaxDepth) # <<>>

(***************************************************************************)
(* Properties of the directives.  The parameter list of the directive the  *)
(* parser is at: the tokens after the keyword (and one whitespace token)   *)
(* up to the next Newline.                                                 *)
(***************************************************************************)
ParamsAt(f) ==
    LET rest == SkipWhitespace(Drop(f.tokens, f.index + 1))
    IN  Take(rest, LineLength(rest))

OneOfKind(params, kind) == Len(params) = 1 /\ params[1].kind = kind

\* C6: #include with a parameter list that is not exactly one string literal
\* is an error that reads no file and leaves output and map unchanged.
C6_IncludeNeedsOneString ==
    [][DirectiveInclude /\ ~OneOfKind(ParamsAt(Top), "String") =>
            /\ Len(stack') = Len(stack)
            /\ Top'.pc = "err"
            /\ Top'.output = Top.output /\ Top'.map = Top.map]_vars

\* C7: #define with parameters p0..pn, p0 a Code token N, leaves the macro
\* table mapping N to exactly p1..pn (defined before or not) and the other
\* names as they were; with no parameter, or p0 not a Code token, it returns
\* Err and leaves the macro table unchanged.
C7_DefineStoresBody ==
    [][DirectiveDefine =>
            LET params == ParamsAt(Top)
            IN  IF params # <<>> /\ Head(params).kind = "Code"
                THEN /\ Top'.pc = "loop"
                     /\ DOMAIN Top'.deflist = DOMAIN Top.deflist \cup {Head(params).text}
                     /\ Top'.deflist[Head(params).text] = Tail(params)
                     /\ \A n \in DOMAIN Top.deflist \ {Head(params).text} :
                            Top'.deflist[n] = Top.deflist[n]
                ELSE /\ Top'.pc = "err"
                     /\ Top'.deflist = Top.deflist]_vars

\* a macro defined twice, the second time with a body
C7_Witness ==
    /\ Len(stack) = 1 /\ Top.pc = "loop" /\ Top.index = Len(Top.tokens)
    /\ Cardinality({k \in 1..Len(Top.tokens) : Top.tokens[k].kind = "Define"}) = 2
    /\ <<"X">> \in DOMAIN Top.deflist
    /\ Top.deflist[<<"X">>] # <<>>

C9_MacroTableIsLocal ==
    [][/\ Len(stack') > Len(stack) => Top'.deflist = EmptyDefs
       /\ \A i \in 1..Len(stack) :
            stack[i].pc = "wait" /\ i <= Len(stack') => stack'[i].deflist = stack[i].deflist]_vars

\* an included file's parser holding a macro its includer does not have,
\* while the includer holds one of its own
C9_Witness ==
    /\ Len(stack) >= 2
    /\ DOMAIN stack[1].deflist # {}
    /\ DOMAIN Top.deflist # {}
    /\ DOMAIN Top.deflist # DOMAIN stack[1].deflist

CycleOpen ==
    \E i, j \in 1..Len(stack) : i < j /\ stack[i].filename = stack[j].filename

\* C23: includes are not checked for cycles: once a file is included while
\* it is already being parsed, the outermost parse never returns Ok or Err;
\* every include that starts a nested parse starts it from a fresh parser,
\* whether or not the file is already open.
C23_CyclicIncludeNeverReturns ==
    /\ [](CycleOpen => [](stack # <<>> /\ stack[1].pc \notin {"ok", "err"}))
    /\ [][Len(stack') > Len(stack) =>
             Top' = NewParser(Top'.filename, Top'.tokens)]_vars

\* the file e is being parsed from inside its own parse
C23_Witness ==
    /\ CycleOpen
    /\ Top.filename = <<"e">>
    /\ Top.pc = "loop"
    /\ Top.index > 0

(***************************************************************************)
(* Properties of the lexer.                                                *)
(***************************************************************************)
\* C10: on every text tokenize returns Ok or Err: it does not abort and it
\* does not run forever.
C10_TokenizeReturns == lexer.status \in {"running", "ok", "err"}

(***************************************************************************)
(* The assembler's tokenize_number on its own: the call is made on a text  *)
(* that starts with a digit, as tokenize_one_token makes it.               *)
(***************************************************************************)
MaxDigits == 3

NumberPrefixes == {<<>>, <<"0", "x">>, <<"0", "o">>, <<"0", "b">>}

NumberDigits == {"0", "1", "7", "F"}

NumberSuffixes == {<<>>, <<",">>}

NamedNumbers ==
    {<<"4", "2">>, <<"0", "x", "F", "F", "F", "F">>, <<"0", "x", "1", "0", "0", "0", "0">>,
     <<"6", "5", "5", "3", "5">>, <<"6", "5", "5", "3", "6">>, <<"1", U2>>}

NumberTexts ==
    {t \in {p \o ds \o x : p \in NumberPrefixes, ds \in SeqsUpTo(NumberDigits, MaxDigits),
                           x \in NumberSuffixes} \cup NamedNumbers :
        t # <<>> /\ Head(t) \in Digits}

InitNumber ==
    /\ number \in {NewNumber(t) : t \in NumberTexts}
    /\ lexer = IdleLexer /\ fs = <<>> /\ stack = <<>>
    /\ mapA = new_map /\ mapB = new_map /\ mapPre = new_map /\ mapOp = "none"
    /\ asm = IdleAsmLexer /\ par = IdleAsmParser

\* tokenize_number(data)
TokenizeNumber ==
    /\ number.status = "new"
    /\ number' = Only({[data |-> number.data, status |-> r.status, value |-> r.tok.num,
                        span |-> r.tok.span] : r \in {asm_tokenize_number(number.data)}})
    /\ UNCHANGED <<lexer, fs, stack, mapA, mapB, mapPre, mapOp, asm, par>>

NextNumber == TokenizeNumber

SpecNumber == InitNumber /\ [][NextNumber]_vars

(***************************************************************************)
(* The assembler lexer on whole texts, built from pieces like the          *)
(* preprocessor's.                                                         *)
(***************************************************************************)
Punctuation == {",", "(", ")", "+", "-", "*", "/", ":"}

W_loop == <<"l", "o", "o", "p">>

AsmPieces ==
    {<<c>> : c \in Punctuation} \cup
    {W_loop, <<"x">>, <<"1">>, <<" ">>, <<"\n">>, <<";">>, <<U2>>, <<".", "d", "b">>,
     <<"m", "o", "v">>, <<"\"", "x", "\"">>, <<"\"", "\n", ";", "\"">>}

AsmTexts == {Flatten(ps) : ps \in SeqsUpTo(AsmPieces, MaxPieces)}

InitAsmLex ==
    /\ asm \in {NewAsmLexer(t) : t \in AsmTexts}
    /\ lexer = IdleLexer /\ fs = <<>> /\ stack = <<>>
    /\ mapA = new_map /\ mapB = new_map /\ mapPre = new_map /\ mapOp = "none"
    /\ number = IdleNumber /\ par = IdleAsmParser

\* one iteration of Lexer::tokenize
AsmLexStep ==
    /\ asm.status = "running"
    /\ asm' = asm_tokenize_iter(asm)
    /\ UNCHANGED <<lexer, fs, stack, mapA, mapB, mapPre, mapOp, number, par>>

NextAsmLex == AsmLexStep

SpecAsmLex == InitAsmLex /\ [][NextAsmLex]_vars

(***************************************************************************)
(* The assembler parser on token sequences built from phrases; the tokens  *)
(* of the k-th phrase are on line k.                                       *)
(***************************************************************************)
MaxPhrases == 2

K(kind) == [kind |-> kind, text |-> <<>>, num |-> 0]

LabelLoop == [kind |-> "Label", text |-> W_loop, num |-> 0]

IntTok(n) == [kind |-> "Integer", text |-> <<>>, num |-> n]

StrTok(text) == [kind |-> "String", text |-> text, num |-> 0]

AsmPhrases ==
    {<<K("Hlt")>>, <<K("Mov")>>, <<K("Db")>>, <<K("Org"), IntTok(1)>>, <<K("Db"), IntTok(1)>>,
     <<K("Mov"), K("Ac"), K("Comma"), IntTok(1)>>,
     <<K("Mov"), K("Ac"), K("Comma"), LabelLoop>>,
     <<LabelLoop, K("Colon")>>, <<LabelLoop>>, <<K("Colon")>>,
     <<K("Minus"), K("C")>>, <<K("Minus")>>, <<K("Plus")>>, <<K("Times")>>, <<K("Comma")>>,
     <<IntTok(1)>>, <<StrTok(<<"x">>)>>, <<K("Ix")>>, <<K("Ac")>>,
     <<IntTok(2), K("Plus"), IntTok(3), K("Times"), IntTok(4)>>,
     <<LabelLoop, K("Minus"), IntTok(3), K("Div"), LabelLoop>>,
     <<K("OpenParen"), K("Ac"), K("Plus"), K("Ix"), K("CloseParen")>>,
     <<K("OpenParen"), K("Br"), K("CloseParen")>>,
     <<K("OpenParen"), IntTok(5), K("Plus"), K("Ix"), K("CloseParen")>>,
     <<K("OpenParen"), K("OpenParen"), K("Ac"), K("CloseParen")>>,
     <<IntTok(1), K("Plus"), K("Ix")>>, <<K("Minus"), K("Ix")>>,
     <<K("Minus"), K("C"), K("Hlt")>>}

OnLine(phrase, l) ==
    [i \in 1..Len(phrase) |-> AsmToken(phrase[i].kind, phrase[i].text, phrase[i].num, l)]

AsmTokenSeqs ==
    {Flatten([i \in 1..Len(ps) |-> OnLine(ps[i], i)]) : ps \in SeqsUpTo(AsmPhrases, MaxPhrases)}

InitAsmParse ==
    /\ par \in {NewAsmParser(ts) : ts \in AsmTokenSeqs}
    /\ lexer = IdleLexer /\ fs = <<>> /\ stack = <<>>
    /\ mapA = new_map /\ mapB = new_map /\ mapPre = new_map /\ mapOp = "none"
    /\ number = IdleNumber /\ asm = IdleAsmLexer

\* the statement the next iteration of the loop of parse is given
NextStatement == parse_one_statement(par.tokens, [index |-> par.index, line |-> par.line])

\* parse: Ok(Some(statement)) => output.push(statement)
ParseStatement ==
    /\ par.status = "running"
    /\ NextStatement.st = "some"
    /\ par' = Only({[par EXCEPT !.index = r.p.index, !.line = r.p.line,
                                !.output = Append(@, r.e),
                                !.ranges = Append(@, <<r.from, r.p.index>>)] :
                    r \in {NextStatement}})
    /\ UNCHANGED <<lexer, fs, stack, mapA, mapB, mapPre, mapOp, asm, number>>

\* parse: Ok(None) => break, and Ok(output)
ParseFinish ==
    /\ par.status = "running"
    /\ NextStatement.st = "none"
    /\ par' = Only({[par EXCEPT !.index = r.p.index, !.line = r.p.line, !.status = "ok"] :
                    r \in {NextStatement}})
    /\ UNCHANGED <<lexer, fs, stack, mapA, mapB, mapPre, mapOp, asm, number>>

\* parse: Err(e) => return Err((e, self.line))
ParseError ==
    /\ par.status = "running"
    /\ NextStatement.st = "err"
    /\ par' = Only({[par EXCEPT !.index = r.p.index, !.line = r.p.line, !.status = "err"] :
                    r \in {NextStatement}})
    /\ UNCHANGED <<lexer, fs, stack, mapA, mapB, mapPre, mapOp, asm, number>>

NextAsmParse == ParseStatement \/ ParseFinish \/ ParseError

SpecAsmParse == InitAsmParse /\ [][NextAsmParse]_vars

\* the loop of parse runs without pause until it breaks or returns
SpecAsmParseFair == SpecAsmParse /\ WF_vars(NextAsmParse)

(***************************************************************************)
(* Parser::term on its own, called at the first token of a sequence: the   *)
(* status becomes what term returned, output holds the node of a Some.     *)
(***************************************************************************)
\* self.term()
TermCall ==
    /\ par.status = "running"
    /\ par' = Only({[par EXCEPT !.index = r.p.index, !.line = r.p.line, !.status = r.st,
                                !.output = IF r.st = "some" THEN <<r.e>> ELSE <<>>] :
                    r \in {term(par.tokens, [index |-> 0, line |-> 1])}})
    /\ UNCHANGED <<lexer, fs, stack, mapA, mapB, mapPre, mapOp, asm, number>>

NextTerm == TermCall

SpecTerm == InitAsmParse /\ [][NextTerm]_vars

(***************************************************************************)
(* Properties of the assembler lexer.                                      *)
(***************************************************************************)
RECURSIVE Pow(_, _)
Pow(b, k) == IF k = 0 THEN 1 ELSE b * Pow(b, k - 1)

RECURSIVE SumTo(_, _)
SumTo(f, n) == IF n = 0 THEN 0 ELSE f[n] + SumTo(f, n - 1)

\* the value of a digit string in a base, digit by digit with its weight
PositionalValue(ds, base) ==
    SumTo([i \in 1..Len(ds) |-> DigitValue(ds[i]) * Pow(base, Len(ds) - i)], Len(ds))

\* the leading run of letters and digits of a text
AlnumRun(t) ==
    Take(t, SetMin({i \in 0..Len(t) : i = Len(t) \/ ~is_alphanumeric(t[i + 1])}))

\* the base a literal's prefix selects
LiteralBase(run) ==
    CASE Len(run) > 2 /\ Take(run, 2) = <<"0", "x">> -> 16
      [] Len(run) > 2 /\ Take(run, 2) = <<"0", "o">> -> 8
      [] Len(run) > 2 /\ Take(run, 2) = <<"0", "b">> -> 2
      [] OTHER -> 10

LiteralDigits(run) == IF LiteralBase(run) = 10 THEN run ELSE Drop(run, 2)

IsLiteral(run) ==
    /\ LiteralDigits(run) # <<>>
    /\ \A i \in 1..Len(LiteralDigits(run)) :
          DigitValue(LiteralDigits(run)[i]) < LiteralBase(run)

LiteralValue(run) == PositionalValue(LiteralDigits(run), LiteralBase(run))

\* C11: tokenize_number gives a literal its value in the base its prefix
\* selects when that value is at most 65535, and an error when it is more;
\* 0x1F is 31, 0b101 is 5, 0o17 is 15, 42 is 42, 0xFFFF is 65535 and
\* 0x10000 is an error.
C11_NumberValue ==
    number.status # "new" =>
        /\ IsLiteral(AlnumRun(number.data)) /\ LiteralValue(AlnumRun(number.data)) <= 65535 =>
              /\ number.status = "ok"
              /\ number.value = LiteralValue(AlnumRun(number.data))
        /\ IsLiteral(AlnumRun(number.data)) /\ LiteralValue(AlnumRun(number.data)) > 65535 =>
              number.status = "err"
        /\ number.data = <<"0", "x", "1", "F">> => number.status = "ok" /\ number.value = 31
        /\ number.data = <<"0", "b", "1", "0", "1">> => number.status = "ok" /\ number.value = 5
        /\ number.data = <<"0", "o", "1", "7">> => number.status = "ok" /\ number.value = 15
        /\ number.data = <<"4", "2">> => number.status = "ok" /\ number.value = 42
        /\ number.data = <<"0", "x", "F", "F", "F", "F">> =>
              number.status = "ok" /\ number.value = 65535
        /\ number.data = <<"0", "x", "1", "0", "0", "0", "0">> => number.status = "err"

\* the largest value has been read from its hexadecimal literal
C11_Witness ==
    /\ number.data = <<"0", "x", "F", "F", "F", "F">>
    /\ number.status = "ok"
    /\ number.value = 65535

PunctuationKind(c) ==
    CASE c = "," -> "Comma" [] c = "(" -> "OpenParen" [] c = ")" -> "CloseParen"
      [] c = "+" -> "Plus" [] c = "-" -> "Minus" [] c = "*" -> "Times" [] c = "/" -> "Div"
      [] c = ":" -> "Colon"

\* C12: each of the eight punctuation characters , ( ) + - * / : is lexed as
\* a one-byte token of its own kind, and the text loop: is lexed as a label
\* token followed by a colon token.
C12_PunctuationTokens ==
    asm.status # "running" =>
        /\ \A c \in Punctuation :
              asm.data = <<c>> =>
                  /\ asm.status = "ok"
                  /\ Len(asm.tokens) = 1
                  /\ asm.tokens[1].kind = PunctuationKind(c)
                  /\ asm.tokens[1].span = 1
        /\ asm.data = W_loop \o <<":">> =>
              /\ asm.status = "ok"
              /\ Len(asm.tokens) = 2
              /\ asm.tokens[1].kind = "Label" /\ asm.tokens[1].text = W_loop
              /\ asm.tokens[2].kind = "Colon"

\* the characters of a text that start before byte offset b
CharsBefore(t, b) == {i \in 1..Len(t) : str_len(Take(t, i - 1)) < b}

NewlinesBefore(t, b) == Cardinality({i \in CharsBefore(t, b) : t[i] = "\n"})

\* C20: no token is emitted for a newline, every token carries the line
\* 1 + (the number of newlines of the text before the token's first byte),
\* and the lines of the tokens never decrease.
C20_TokenLines ==
    /\ \A i \in 1..Len(asm.tokens) :
          /\ asm.tokens[i].kind # "None"
          /\ ~(\E k \in 1..Len(asm.data) :
                  str_len(Take(asm.data, k - 1)) = asm.tokens[i].at /\ asm.data[k] = "\n")
          /\ asm.tokens[i].line = 1 + NewlinesBefore(asm.data, asm.tokens[i].at)
    /\ \A i \in 1..(Len(asm.tokens) - 1) : asm.tokens[i].line <= asm.tokens[i + 1].line

(***************************************************************************)
(* Properties of the assembler parser.                                     *)
(***************************************************************************)
KindsOf(tokens) == [i \in 1..Len(tokens) |-> tokens[i].kind]

ParseReturned == par.status # "running"

IsValueToken(t) == t.kind \in {"Integer", "Label"}

\* the nodes a single value token stands for, from the leaf upwards
LeafOf(t) ==
    IF t.kind = "Integer"
    THEN Expr("Integer", "", <<>>, t.num, FALSE, <<>>, t.line)
    ELSE Expr("Label", "", t.text, 0, FALSE, <<>>, t.line)

PrimaryOf(t) == [Node("Primary", t.line) EXCEPT !.exprs = <<LeafOf(t)>>]

UnaryOf(t) == [Node("Unary", t.line) EXCEPT !.exprs = <<PrimaryOf(t)>>]

FactorOf(t) == [Node("Factor", t.line) EXCEPT !.exprs = <<UnaryOf(t)>>]

OperatorOf(t) == TkNode("Operator", t.kind, t.line)

\* the Expression node of a single value token
ValueExpression(t) ==
    [Node("Expression", t.line) EXCEPT
        !.exprs = <<[Node("Term", t.line) EXCEPT !.exprs = <<FactorOf(t)>>]>>]

\* ts is a (+|-) b (*|/) c
IsSumOfProduct(ts) ==
    /\ Len(ts) = 5
    /\ IsValueToken(ts[1]) /\ IsValueToken(ts[3]) /\ IsValueToken(ts[5])
    /\ ts[2].kind \in {"Plus", "Minus"}
    /\ ts[4].kind \in {"Times", "Div"}

\* the Term whose second operand holds the whole product
SumOfProductTerm(ts) ==
    [Node("Term", ts[1].line) EXCEPT
        !.exprs = <<FactorOf(ts[1]), OperatorOf(ts[2]),
                    [Node("Factor", ts[3].line) EXCEPT
                        !.exprs = <<UnaryOf(ts[3]), OperatorOf(ts[4]), UnaryOf(ts[5])>>]>>]

\* the first operand of a statement: of its Op for an instruction
FirstOperand(stmt) ==
    IF stmt.kind = "Instruction" THEN stmt.exprs[1].exprs[1] ELSE stmt.exprs[1]

RECURSIVE NodesOf(_)
NodesOf(e) == {e} \cup UNION {NodesOf(e.exprs[i]) : i \in 1..Len(e.exprs)}

ReferenceOf(is_indexed, contents, line) ==
    Expr("Reference", "", <<>>, 0, is_indexed, <<contents>>, line)

\* C14: the operand ( R + IX ) is a Reference with indexed = true whose
\* single child is Register(R), ( R ) is a Reference with indexed = false
\* whose single child is Register(R), and ( v + IX ) with a value v is an
\* indexed Reference whose single child is the expression v.
C14_ReferenceIndexed ==
    ParseReturned /\ Len(par.tokens) >= 4 /\ par.tokens[1].kind \in Opcodes
      /\ par.tokens[2].kind = "OpenParen" =>
        /\ KindsOf(Drop(par.tokens, 3)) = <<"Plus", "Ix", "CloseParen">>
              /\ par.tokens[3].kind \in Registers =>
                /\ par.status = "ok" /\ Len(par.output) = 1
                /\ par.output[1].exprs[1].exprs =
                      <<ReferenceOf(TRUE, TkNode("Register", par.tokens[3].kind, par.tokens[3].line),
                                    par.tokens[2].line)>>
        /\ KindsOf(Drop(par.tokens, 3)) = <<"CloseParen">>
              /\ par.tokens[3].kind \in Registers =>
                /\ par.status = "ok" /\ Len(par.output) = 1
                /\ par.output[1].exprs[1].exprs =
                      <<ReferenceOf(FALSE, TkNode("Register", par.tokens[3].kind, par.tokens[3].line),
                                    par.tokens[2].line)>>
        /\ KindsOf(Drop(par.tokens, 3)) = <<"Plus", "Ix", "CloseParen">>
              /\ IsValueToken(par.tokens[3]) =>
                /\ par.status = "ok" /\ Len(par.output) = 1
                /\ par.output[1].exprs[1].exprs =
                      <<ReferenceOf(TRUE, ValueExpression(par.tokens[3]), par.tokens[2].line)>>

\* mov ( ac + ix ) has been parsed into an indexed reference
C14_Witness ==
    /\ par.status = "ok"
    /\ KindsOf(par.tokens) = <<"Mov", "OpenParen", "Ac", "Plus", "Ix", "CloseParen">>
    /\ Len(par.output) = 1
    /\ par.output[1].exprs[1].exprs[1].indexed

\* the token at index i (from 1) is a label with a colon right after it
DeclaredLabelAt(i) ==
    /\ i < Len(par.tokens)
    /\ par.tokens[i].kind = "Label"
    /\ par.tokens[i + 1].kind = "Colon"

\* C15: a label with a colon right after it is never consumed as an operand:
\* no instruction or directive returned has it among its tokens; loop: mov
\* ac, 1 gives a label declaration and then a mov instruction, hlt loop:
\* gives an hlt without operands and then a label declaration, and mov ac,
\* loop gives one instruction whose second operand is the label loop.
C15_DeclaredLabelNotOperand ==
    /\ \A k \in 1..Len(par.output) :
          par.output[k].kind # "Label" =>
              \A i \in (par.ranges[k][1] + 1)..par.ranges[k][2] : ~DeclaredLabelAt(i)
    /\ ParseReturned
          /\ KindsOf(par.tokens) = <<"Label", "Colon", "Mov", "Ac", "Comma", "Integer">> =>
            /\ par.status = "ok" /\ Len(par.output) = 2
            /\ par.output[1] = Expr("Label", "", par.tokens[1].text, 0, FALSE, <<>>,
                                     par.tokens[1].line)
            /\ par.output[2].kind = "Instruction"
            /\ par.output[2].exprs[1].tk = "Mov"
            /\ Len(par.output[2].exprs[1].exprs) = 2
    /\ ParseReturned /\ KindsOf(par.tokens) = <<"Hlt", "Label", "Colon">> =>
            /\ par.status = "ok" /\ Len(par.output) = 2
            /\ par.output[1].kind = "Instruction"
            /\ par.output[1].exprs[1].tk = "Hlt"
            /\ par.output[1].exprs[1].exprs = <<>>
            /\ par.output[2] = Expr("Label", "", par.tokens[2].text, 0, FALSE, <<>>,
                                     par.tokens[2].line)
    /\ ParseReturned /\ KindsOf(par.tokens) = <<"Mov", "Ac", "Comma", "Label">> =>
            /\ par.status = "ok" /\ Len(par.output) = 1
            /\ par.output[1].kind = "Instruction"
            /\ Len(par.output[1].exprs[1].exprs) = 2
            /\ par.output[1].exprs[1].exprs[2] = ValueExpression(par.tokens[4])

\* hlt loop: has been parsed into an instruction and a label declaration
C15_Witness ==
    /\ par.status = "ok"
    /\ KindsOf(par.tokens) = <<"Hlt", "Label", "Colon">>
    /\ Len(par.output) = 2
    /\ par.output[2].kind = "Label"

\* the token at index i (from 1) can start an operand of a directive: a
\* string, or a value that starts an expression
StartsDirectiveOperand(i) ==
    /\ i <= Len(par.tokens)
    /\ \/ par.tokens[i].kind \in {"String", "Integer"}
       \/ par.tokens[i].kind = "Label" /\ ~DeclaredLabelAt(i)

\* C16: when directive has returned a Directive node, the next token that
\* is not consumed starts neither a string nor an expression: every
\* operand after the directive keyword is a child of the one node.
C16_DirectiveGreedy ==
    \A k \in 1..Len(par.output) :
        par.output[k].kind = "Directive" => ~StartsDirectiveOperand(par.ranges[k][2] + 1)

\* C17: when parse returns Ok, every token lies in the token range of
\* exactly one returned statement.
C17_EveryTokenInAStatement ==
    par.status = "ok" =>
        \A i \in 1..Len(par.tokens) :
            Cardinality({k \in 1..Len(par.output) :
                            par.ranges[k][1] < i /\ i <= par.ranges[k][2]}) = 1

\* ts is v (op v)* for value tokens v and operators + - * /
IsSimpleSum(ts) ==
    /\ Len(ts) % 2 = 1
    /\ \A i \in 1..Len(ts) :
          IF i % 2 = 1 THEN IsValueToken(ts[i])
          ELSE ts[i].kind \in {"Plus", "Minus", "Times", "Div"}

\* the places (from 1) of a + or - that is followed by IX after a simple sum
IndexOperatorPlaces ==
    {i \in 2..(Len(par.tokens) - 1) :
        /\ par.tokens[i].kind \in {"Plus", "Minus"}
        /\ par.tokens[i + 1].kind = "Ix"
        /\ IsSimpleSum(Take(par.tokens, i - 1))}

PlusMinusBefore(i) ==
    Cardinality({j \in 1..(i - 1) : par.tokens[j].kind \in {"Plus", "Minus"}})

\* C21: when term meets a + or - that is followed by IX, it returns the Term
\* parsed so far with the index at that operator: every token before the
\* operator is consumed, the operator is not, and the Term has no Operator
\* node for it.
C21_IndexOperatorLeft ==
    par.status # "running" =>
        \A i \in IndexOperatorPlaces :
            /\ par.status = "some"
            /\ par.index = i - 1
            /\ par.output[1].kind = "Term"
            /\ Len(par.output[1].exprs) = 2 * PlusMinusBefore(i) + 1
            /\ par.output[1].exprs[Len(par.output[1].exprs)].kind = "Factor"

\* term has returned from 2 + 3 * 4 - IX
C21_Witness ==
    /\ par.status = "some"
    /\ KindsOf(par.tokens) = <<"Integer", "Plus", "Integer", "Times", "Integer", "Minus", "Ix">>
    /\ par.index = 5

\* C22: every statement parse has returned carries the line of the first
\* token that belongs to it; an instruction with a condition prefix carries
\* the line of its leading - token.
C22_NodeLineOfFirstToken ==
    \A k \in 1..Len(par.output) :
        par.output[k].line = par.tokens[par.ranges[k][1] + 1].line

\* a well-formed instruction without a condition, by its token kinds
PlainInstructions ==
    {<<"Hlt">>, <<"Mov", "Ac">>, <<"Mov", "Ac", "Comma", "Integer">>,
     <<"Mov", "Ac", "Comma", "Label">>,
     <<"Mov", "OpenParen", "Br", "CloseParen">>,
     <<"Mov", "OpenParen", "Ac", "Plus", "Ix", "CloseParen">>}

\* C25: the tokens of a well-formed instruction A followed by those of an
\* instruction B with a condition prefix parse to exactly two instruction
\* statements, A and then B with its condition.
C25_ConditionAfterInstruction ==
    ParseReturned =>
        \A a \in PlainInstructions :
            KindsOf(par.tokens) = a \o <<"Minus", "C", "Hlt">> =>
                /\ par.status = "ok"
                /\ Len(par.output) = 2
                /\ par.output[1].kind = "Instruction" /\ par.output[1].tk = "None"
                /\ par.output[2].kind = "Instruction" /\ par.output[2].tk = "C"
                /\ par.output[2].exprs[1].tk = "Hlt"

\* the character of a text that starts at byte offset b, NoChar if none does
CharAtByte(t, b) ==
    IF \E k \in 1..Len(t) : str_len(Take(t, k - 1)) = b
    THEN t[CHOOSE k \in 1..Len(t) : str_len(Take(t, k - 1)) = b]
    ELSE NoChar

\* C26: the span of a String token is the number of bytes of the whole
\* literal with both quotes: the token starts at its opening quote, the
\* byte before the end of the span is the closing quote, and the span is
\* two more than the bytes between the quotes.
C26_StringSpanCoversLiteral ==
    \A i \in 1..Len(asm.tokens) :
        asm.tokens[i].kind = "String" =>
            /\ CharAtByte(asm.data, asm.tokens[i].at) = "\""
            /\ CharAtByte(asm.data, asm.tokens[i].at + asm.tokens[i].span - 1) = "\""
            /\ asm.tokens[i].span >= str_len(asm.tokens[i].text) + 2

\* C27: no indexed access tokens[i] of the preprocessor parser is out of
\* range: no parse aborts, and a directive whose faulty parameter list runs
\* to the end of the tokens ends its parse with Err.
C27_TokenIndexInRange ==
    \A i \in 1..Len(stack) :
        /\ stack[i].pc # "panic"
        /\ stack[i].index <= Len(stack[i].tokens)

\* C28: parse terminates: every statement it is given leaves the token index
\* strictly greater than before, the index stays within 0..tokens.len(), no
\* more statements are produced than there are tokens, and the loop ends
\* with Ok or Err.
C28_ParseTerminates ==
    /\ [](/\ par.index \in 0..Len(par.tokens)
          /\ Len(par.output) <= Len(par.tokens))
    /\ [][ParseStatement => par'.index > par.index]_vars
    /\ <>ParseReturned

\* parse returned Ok after two statements, the first of which stepped back
\* from a label that is followed by a colon
C28_Witness ==
    /\ par.status = "ok"
    /\ Len(par.output) = 2
    /\ par.ranges[1] = <<0, 1>>
    /\ KindsOf(par.tokens) = <<"Mov", "Label", "Colon">>

\* C18: the token sequence of a finished tokenize holds no Whitespace token
\* and no token whose text reaches into a comment (holds a ';' that is not
\* inside a string literal).
C18_NoWhitespaceOrCommentToken ==
    lexer.status = "ok" =>
        \A i \in 1..Len(lexer.tokens) :
            /\ lexer.tokens[i].kind # "Whitespace"
            /\ lexer.tokens[i].kind = "Code" =>
                  \A j \in 1..Len(lexer.tokens[i].text) : lexer.tokens[i].text[j] # ";"

\* C19: the text of every Code token holds no whitespace character.
C19_CodeHasNoWhitespace ==
    \A i \in 1..Len(lexer.tokens) :
        lexer.tokens[i].kind = "Code" =>
            \A j \in 1..Len(lexer.tokens[i].text) : ~is_whitespace(lexer.tokens[i].text[j])

====
